---------------------------- MODULE Spec2Model ----------------------------
(***************************************************************************)
(* Model of the content planner (services/content_planner.py), the daily   *)
(* automation job (scheduler/job_runner.py) and the collaborators it       *)
(* calls (services/rss_fetcher.py, services/content_generator.py).         *)
(*                                                                         *)
(* Two specifications share the module:                                    *)
(*   SpecPlan  one call of ContentPlannerService.create_tasks, on every    *)
(*             input within the bounds;                                    *)
(*   Spec      runs of DailyJobRunner.run_daily, one step per stretch of   *)
(*             code between two awaits.                                    *)
(***************************************************************************)
EXTENDS Integers, Sequences, FiniteSets, TLC

(* ------------------------------ bounds -------------------------------- *)

\* longest news_items list handed to a create_tasks call
MaxNews == 3
\* longest plan_slots list (create_tasks call and scheduler configuration)
MaxSlots == 3
\* most entries in the feed one fetch_latest call downloads
MaxEntries == 1

(* --------------------------- value universes -------------------------- *)

\* datetime | None: <<>> is None, <<t>> a datetime whose timestamp() is t
None == <<>>
Some(t) == <<t>>
\* hours of one day, as in 09:00, 10:00, 11:00
Hours == {9, 10, 11}
OptTimes == {None} \cup {Some(t) : t \in Hours}

NewsIds == <<"n1", "n2", "n3", "n4", "n5">>
PostTypes == <<"short", "analytical">>

\* the slot the caller puts at position i: slot_ids are unique
SlotAt(i) ==
    [slot_id |-> "s" \o ToString(i),
     post_type |-> PostTypes[((i - 1) % Len(PostTypes)) + 1]]

SlotLists == {[i \in 1..n |-> SlotAt(i)] : n \in 0..MaxSlots}

(* ----------------------- services/content_planner.py ------------------ *)

\* float("inf") and the finite floats -timestamp(): a float is either
\* infinite or carries a finite value
Inf == [inf |-> TRUE, val |-> 0]
Fin(v) == [inf |-> FALSE, val |-> v]

FloatLess(a, b) == ~a.inf /\ (b.inf \/ a.val < b.val)

\* a mutant of SortKey: the timestamp is not negated (oldest first)
SortKeyAscending(item) ==
    <<~item.is_breaking,
      IF item.published_at # None THEN Fin(item.published_at[1]) ELSE Inf>>

\* the key of the sort: (not is_breaking, -timestamp or inf)
SortKey(item) ==
    <<~item.is_breaking,
      IF item.published_at # None THEN Fin(-(item.published_at[1])) ELSE Inf>>

\* Python's tuple comparison of two keys (False < True, then the floats)
KeyLess(k1, k2) ==
    \/ (~k1[1] /\ k2[1])
    \/ (k1[1] = k2[1] /\ FloatLess(k1[2], k2[2]))

\* a mutant of InsertSorted: the item goes in front of the elements with an
\* equal key (the sort is not stable)
RECURSIVE InsertSortedBeforeEqual(_, _)
InsertSortedBeforeEqual(sorted, item) ==
    IF sorted = <<>> THEN <<item>>
    ELSE IF ~KeyLess(SortKey(Head(sorted)), SortKey(item))
         THEN <<item>> \o sorted
         ELSE <<Head(sorted)>> \o InsertSortedBeforeEqual(Tail(sorted), item)

\* insert item behind every element whose key is not greater (stable)
RECURSIVE InsertSorted(_, _)
InsertSorted(sorted, item) ==
    IF sorted = <<>> THEN <<item>>
    ELSE IF KeyLess(SortKey(item), SortKey(Head(sorted)))
         THEN <<item>> \o sorted
         ELSE <<Head(sorted)>> \o InsertSorted(Tail(sorted), item)

\* sorted(news_items, key=...): a stable sort
RECURSIVE Sorted(_)
Sorted(items) ==
    IF items = <<>> THEN <<>>
    ELSE InsertSorted(Sorted(SubSeq(items, 1, Len(items) - 1)), items[Len(items)])

\* a mutant of Matched: the used_news_ids filter is dropped
MatchedAny(sorted_news, used_news_ids) ==
    IF sorted_news = <<>> THEN 0 ELSE 1

\* a mutant of Matched: the last unused item is taken, not the first
MatchedLast(sorted_news, used_news_ids) ==
    LET free == {i \in 1..Len(sorted_news) :
                    sorted_news[i].news_id \notin used_news_ids}
    IN IF free = {} THEN 0 ELSE CHOOSE i \in free : \A j \in free : i >= j

\* next(item for item in sorted_news if item.news_id not in used_news_ids,
\* None): the index of the match, 0 for None
Matched(sorted_news, used_news_ids) ==
    LET free == {i \in 1..Len(sorted_news) :
                    sorted_news[i].news_id \notin used_news_ids}
    IN IF free = {} THEN 0 ELSE CHOOSE i \in free : \A j \in free : i <= j

ContentTask(slot, item) ==
    [slot_id |-> slot.slot_id, post_type |-> slot.post_type,
     news_id |-> item.news_id, headline |-> item.headline]

\* a mutant of AssignSlots: a slot without a match is given the first item
\* of the sorted list again instead of being skipped
RECURSIVE AssignSlotsReuse(_, _, _, _, _)
AssignSlotsReuse(slots, sorted_news, k, tasks_so_far, used_news_ids) ==
    IF k > Len(slots) THEN tasks_so_far
    ELSE LET m == Matched(sorted_news, used_news_ids)
             pick == IF m = 0 THEN 1 ELSE m
         IN AssignSlotsReuse(slots, sorted_news, k + 1,
                             Append(tasks_so_far,
                                    ContentTask(slots[k], sorted_news[pick])),
                             used_news_ids \cup {sorted_news[pick].news_id})

\* the loop over plan_slots, from slot k on, with the tasks and the used ids
\* built so far
RECURSIVE AssignSlots(_, _, _, _, _)
AssignSlots(slots, sorted_news, k, tasks_so_far, used_news_ids) ==
    IF k > Len(slots) THEN tasks_so_far
    ELSE LET m == Matched(sorted_news, used_news_ids)
         IN IF m = 0
            THEN AssignSlots(slots, sorted_news, k + 1, tasks_so_far,
                             used_news_ids)
            ELSE AssignSlots(slots, sorted_news, k + 1,
                             Append(tasks_so_far,
                                    ContentTask(slots[k], sorted_news[m])),
                             used_news_ids \cup {sorted_news[m].news_id})

\* a mutant of create_tasks: only the slots are checked for emptiness
create_tasks_unchecked_news(slots, items) ==
    IF slots = <<>>
    THEN [error |-> "At least one plan slot is required.", tasks |-> <<>>]
    ELSE [error |-> "",
          tasks |-> AssignSlots(slots, Sorted(items), 1, <<>>, {})]

\* ContentPlannerService.create_tasks: error is the message of the
\* ContentPlanningError raised, "" when the call returns tasks
create_tasks(slots, items) ==
    IF slots = <<>>
    THEN [error |-> "At least one plan slot is required.", tasks |-> <<>>]
    ELSE IF items = <<>>
    THEN [error |-> "At least one news item is required.", tasks |-> <<>>]
    ELSE [error |-> "",
          tasks |-> AssignSlots(slots, Sorted(items), 1, <<>>, {})]


(* ------------------------ services/rss_fetcher.py --------------------- *)

\* the default of fetch_latest's limit parameter
FetchLimit == 20

\* the feed URLs a scheduler configuration may list, in this order
FeedUrls == <<"https://a.example/rss", "https://b.example/rss">>

\* the entries a downloaded feed may hold: "" is a missing key
EntryUniverse ==
    [link : {"u1", "u2"},
     title : {"Rates rise", "  "},
     published : {"", "Tue, 02 Jan 2024 10:00:00 GMT"},
     updated : {""}]
    \cup {[link |-> "", title |-> "Rates rise", published |-> "",
           updated |-> ""]}

\* what the download of a feed may give: an HTTP error, a document
\* feedparser flags as bozo, or a well-formed feed with its entries
FeedReplies ==
    {[kind |-> "http_error", entries |-> <<>>],
     [kind |-> "bozo", entries |-> <<>>]}
    \cup {[kind |-> "feed", entries |-> es] :
            es \in UNION {[1..n -> EntryUniverse] : n \in 0..MaxEntries}}

\* email.utils.parsedate_to_datetime on the date strings of the universe;
\* any other string raises ValueError
Rfc2822 == [d \in {"Tue, 02 Jan 2024 10:00:00 GMT"} |-> 10]

\* _parse_published: None without a date or when the date does not parse
parse_published(entry) ==
    LET published == IF entry.published # "" THEN entry.published
                     ELSE entry.updated
    IN IF published = "" THEN None
       ELSE IF published \in DOMAIN Rfc2822 THEN Some(Rfc2822[published])
       ELSE None

Take(seq, n) == SubSeq(seq, 1, IF Len(seq) < n THEN Len(seq) ELSE n)

\* the loop over feed.entries[:limit]: entries without link or title are
\* skipped
RECURSIVE Articles(_)
Articles(entries) ==
    IF entries = <<>> THEN <<>>
    ELSE LET e == Head(entries)
         IN IF e.link = "" \/ e.title = ""
            THEN Articles(Tail(entries))
            ELSE <<[url |-> e.link, title |-> e.title,
                    published_at |-> parse_published(e)]>>
                 \o Articles(Tail(entries))

\* a mutant of fetch_latest: a failed download yields no articles instead of
\* raising
fetch_latest_swallow(feed_url, reply) ==
    IF reply.kind = "feed"
    THEN [error |-> "", articles |-> Articles(Take(reply.entries, FetchLimit))]
    ELSE [error |-> "", articles |-> <<>>]

\* RSSFetcherService.fetch_latest: error is the message of the RSSFetchError
\* raised, "" when the call returns articles
fetch_latest(feed_url, reply) ==
    IF reply.kind = "http_error"
    THEN [error |-> "Failed to fetch RSS feed: " \o feed_url,
          articles |-> <<>>]
    ELSE IF reply.kind = "bozo"
    THEN [error |-> "Invalid RSS feed: " \o feed_url, articles |-> <<>>]
    ELSE [error |-> "", articles |-> Articles(Take(reply.entries, FetchLimit))]

(* --------------------- services/content_generator.py ------------------ *)

\* str.strip() on the strings of the model that carry outer whitespace
Whitespace == [x \in {"  ", " Lead ", " ", " analytical "} |->
                  CASE x = " Lead " -> "Lead"
                    [] x = " analytical " -> "analytical"
                    [] OTHER -> ""]
Strip(x) == IF x \in DOMAIN Whitespace THEN Whitespace[x] ELSE x

\* what the responses API may do with one request: raise, or answer with
\* this output_text ("" also stands for a response without output_text)
ApiReplies ==
    {[raises |-> TRUE, output_text |-> ""]}
    \cup {[raises |-> FALSE, output_text |-> t] :
            t \in {"", "not json", "[]",
                   "{lead: Lead }",
                   "{lead: ,body,analysis,cta}",
                   "{lead: Lead ,body,analysis,cta}"}}

\* json.loads on the output texts of the model: "error" for a
\* JSONDecodeError, else the kind of the value and, for a dict, its items
json_loads(text) ==
    CASE text = "[]" -> [kind |-> "list", items |-> <<>>]
      [] text = "{lead: Lead }" ->
            [kind |-> "dict", items |-> [k \in {"lead"} |-> " Lead "]]
      [] text = "{lead: ,body,analysis,cta}" ->
            [kind |-> "dict",
             items |-> [k \in {"lead", "body", "analysis", "cta"} |->
                          IF k = "lead" THEN " " ELSE k]]
      [] text = "{lead: Lead ,body,analysis,cta}" ->
            [kind |-> "dict",
             items |-> [k \in {"lead", "body", "analysis", "cta"} |->
                          IF k = "lead" THEN " Lead " ELSE k]]
      [] OTHER -> [kind |-> "error", items |-> <<>>]

\* payload.get(key): <<>> is None
DictGet(items, key) == IF key \in DOMAIN items THEN Some(items[key]) ELSE None

GenerationError(message) ==
    [kind |-> "ContentGenerationError", message |-> message, content |-> <<>>]

\* ContentGeneratorService.generate with the API answering `reply`: the
\* TelegramContent returned, the ContentGenerationError raised, or the
\* AttributeError of payload.get on a JSON value that is no object
generate(headline, summary, key_facts, reply) ==
    IF Strip(headline) = "" THEN GenerationError("Headline is required.")
    ELSE IF Strip(summary) = "" THEN GenerationError("Summary is required.")
    ELSE IF key_facts = <<>> THEN GenerationError("Key facts are required.")
    ELSE IF \A i \in 1..Len(key_facts) : Strip(key_facts[i]) = ""
    THEN GenerationError("Key facts are required.")
    ELSE IF reply.raises THEN GenerationError("OpenAI request failed.")
    ELSE IF reply.output_text = ""
    THEN GenerationError("OpenAI returned empty response.")
    ELSE LET payload == json_loads(reply.output_text)
         IN IF payload.kind = "error"
            THEN GenerationError("OpenAI returned invalid JSON.")
            ELSE IF payload.kind # "dict"
            THEN [kind |-> "AttributeError",
                  message |-> "object has no attribute 'get'",
                  content |-> <<>>]
            ELSE LET lead == DictGet(payload.items, "lead")
                     body == DictGet(payload.items, "body")
                     analysis == DictGet(payload.items, "analysis")
                     cta == DictGet(payload.items, "cta")
                 IN IF \E item \in {lead, body, analysis, cta} :
                          item = None \/ Strip(item[1]) = ""
                    THEN GenerationError(
                            "OpenAI response missing required fields.")
                    ELSE [kind |-> "content", message |-> "",
                          content |-> [lead |-> Strip(lead[1]),
                                       body |-> Strip(body[1]),
                                       analysis |-> Strip(analysis[1]),
                                       cta |-> Strip(cta[1])]]

(* ------------------------ scheduler/job_runner.py --------------------- *)

\* datetime.utcnow().isoformat() on a day of January 2024 (the time of day
\* is left out)
Days == {2, 3}
isoformat(day) == "2024-01-0" \o ToString(day)

\* json.dumps(payload) + "\n": a line of the file that parses, to payload
json_line(payload) == [valid |-> TRUE, kind |-> "dict", value |-> payload]

\* a mutant of StoreWrite: the line is put at the head of the file
StoreWriteAtHead(lines, payload) == <<json_line(payload)>> \o lines

\* a mutant of StoreWrite: the file is opened in mode "w"
StoreWriteTruncate(lines, payload) == <<json_line(payload)>>

\* OutputStore.write: the file opened in mode "a" gets one more line
StoreWrite(lines, payload) == Append(lines, json_line(payload))

\* a mutant of Falsy: only an unset variable counts as missing
FalsyNoneOnly(value) == value = None

\* `not api_key` for the value of os.getenv: None or the empty string
Falsy(value) == value = None \/ value = Some("")

PlannedPayload(day, task) ==
    [timestamp |-> isoformat(day), task |-> task, status |-> "planned"]

FailedPayload(day, task, message, elapsed) ==
    [timestamp |-> isoformat(day), task |-> task, status |-> "failed",
     error |-> message, processing_time_seconds |-> elapsed]

CompletedPayload(day, task, content, elapsed) ==
    [timestamp |-> isoformat(day), task |-> task, status |-> "completed",
     content |-> content, processing_time_seconds |-> elapsed]

\* the loop `for task in tasks: self._store.write({... "planned"})`
RECURSIVE WritePlanned(_, _, _)
WritePlanned(lines, day, todo) ==
    IF todo = <<>> THEN lines
    ELSE WritePlanned(StoreWrite(lines, PlannedPayload(day, Head(todo))),
                      day, Tail(todo))

\* time.perf_counter() differences, in seconds
Elapsed == {0, 2}

\* the file as earlier runs may have left it
EarlierStores ==
    {<<>>,
     <<json_line(PlannedPayload(1,
          [slot_id |-> "s1", post_type |-> "short", news_id |-> "u0",
           headline |-> "Old news"]))>>}

(* ------------------------ services/reporting.py ----------------------- *)

\* a line of the file that is no JSON text (a blank line among them)
TextLine(text) ==
    [valid |-> FALSE, kind |-> "text", value |-> [text |-> text]]

\* the line "[]": JSON, but no object
ListLine == [valid |-> TRUE, kind |-> "list", value |-> [items |-> <<>>]]

\* ReportingService._iter_records on an existing file: blank lines and lines
\* that json.loads rejects are skipped, the value of every other line is
\* yielded
RECURSIVE iter_records(_)
iter_records(lines) ==
    IF lines = <<>> THEN <<>>
    ELSE LET line == Head(lines)
         IN IF line.kind = "text" /\ Strip(line.value.text) = ""
            THEN iter_records(Tail(lines))
            ELSE IF ~line.valid
            THEN iter_records(Tail(lines))
            ELSE <<[kind |-> line.kind, value |-> line.value]>>
                    \o iter_records(Tail(lines))

\* the days of January 2024 that isoformat writes with one digit
CalendarDays == 1..9

\* a mutant of fromisoformat: a timestamp that does not parse counts as one
\* of day 2
fromisoformat_lenient(timestamp) ==
    IF \E day \in CalendarDays : isoformat(day) = timestamp
    THEN Some(CHOOSE day \in CalendarDays : isoformat(day) = timestamp)
    ELSE Some(2)

\* datetime.fromisoformat(timestamp).date(): the day, or None for the
\* ValueError of a string that does not parse
fromisoformat(timestamp) ==
    IF \E day \in CalendarDays : isoformat(day) = timestamp
    THEN Some(CHOOSE day \in CalendarDays : isoformat(day) = timestamp)
    ELSE None

\* ReportingService._record_date on a dict; a timestamp that is no string is
\* modelled by an absent one (payload.get gives None, which is no string)
record_date(payload) ==
    LET timestamp == DictGet(payload, "timestamp")
    IN IF timestamp = None THEN None ELSE fromisoformat(timestamp[1])

RECURSIVE Gcd(_, _)
Gcd(a, b) == IF b = 0 THEN a ELSE Gcd(b, a % b)

\* the float n / d, kept as the fraction in lowest terms (two divisions
\* give the same float when their exact quotients are equal)
Ratio(n, d) == [num |-> n \div Gcd(n, d), den |-> d \div Gcd(n, d)]

\* a mutant of FailureRate: the rate of failed among all counted records
\* but the failed ones
FailureRateOverCompleted(failed_tasks, completed_tasks) ==
    IF completed_tasks # 0
    THEN Ratio(failed_tasks, completed_tasks)
    ELSE Ratio(0, 1)

\* failed_tasks / total_completed_or_failed if total_completed_or_failed
\* else 0.0
FailureRate(failed_tasks, completed_tasks) ==
    LET total_completed_or_failed == completed_tasks + failed_tasks
    IN IF total_completed_or_failed # 0
       THEN Ratio(failed_tasks, total_completed_or_failed)
       ELSE Ratio(0, 1)

\* the counters of get_daily_kpis before the loop
NoCounts ==
    [total_tasks |-> 0, completed_tasks |-> 0, failed_tasks |-> 0,
     time_sum |-> 0, time_count |-> 0,
     content_type_distribution |-> [key \in {} |-> 0]]

\* the body of the loop for a record of the target date. A task that is no
\* dict is modelled by an absent one, a post_type that is no string by an
\* absent one
CountRecord(acc, record) ==
    LET status == DictGet(record, "status")
        processing_time == DictGet(record, "processing_time_seconds")
        task == DictGet(record, "task")
        dist == acc.content_type_distribution
        post_type == DictGet(task[1], "post_type")
        key == IF post_type # None /\ Strip(post_type[1]) # ""
               THEN Strip(post_type[1])
               ELSE "unknown"
    IN [total_tasks |-> acc.total_tasks + 1,
        completed_tasks |-> IF status = Some("completed")
                            THEN acc.completed_tasks + 1
                            ELSE acc.completed_tasks,
        failed_tasks |-> IF status = Some("failed")
                         THEN acc.failed_tasks + 1
                         ELSE acc.failed_tasks,
        time_sum |-> IF processing_time # None
                     THEN acc.time_sum + processing_time[1]
                     ELSE acc.time_sum,
        time_count |-> IF processing_time # None
                       THEN acc.time_count + 1
                       ELSE acc.time_count,
        content_type_distribution |->
            IF status = Some("completed") /\ task # None
            THEN [k \in DOMAIN dist \cup {key} |->
                    IF k \in DOMAIN dist
                    THEN IF k = key THEN dist[k] + 1 ELSE dist[k]
                    ELSE 1]
            ELSE dist]

\* the loop of get_daily_kpis over the yielded values: "AttributeError" when
\* _record_date calls payload.get on a value that is no dict, else the
\* counters after the last record
RECURSIVE CountRecords(_, _, _)
CountRecords(records, target, acc) ==
    IF records = <<>> THEN [error |-> "", counts |-> acc]
    ELSE LET record == Head(records)
         IN IF record.kind # "dict"
            THEN [error |-> "AttributeError", counts |-> acc]
            ELSE IF record_date(record.value) # Some(target)
            THEN CountRecords(Tail(records), target, acc)
            ELSE CountRecords(Tail(records), target,
                              CountRecord(acc, record.value))

\* kpi_result before any call
NotCalled == [kind |-> "none", kpis |-> <<>>]

\* the DailyKPIs built from the counters
DailyKPIs(target, counts) ==
    [date |-> target,
     generated_posts |-> counts.completed_tasks,
     failure_rate |-> FailureRate(counts.failed_tasks,
                                  counts.completed_tasks),
     average_processing_time_seconds |->
        IF counts.time_count # 0
        THEN Some(Ratio(counts.time_sum, counts.time_count))
        ELSE None,
     content_type_distribution |-> counts.content_type_distribution,
     total_tasks |-> counts.total_tasks,
     failed_tasks |-> counts.failed_tasks]

\* a mutant of get_daily_kpis: a missing file is read as an empty one
get_daily_kpis_missing_as_empty(exists, lines, target) ==
    LET counted == CountRecords(iter_records(lines), target, NoCounts)
    IN IF counted.error # ""
       THEN [kind |-> counted.error, kpis |-> <<>>]
       ELSE [kind |-> "kpis", kpis |-> DailyKPIs(target, counted.counts)]

\* ReportingService.get_daily_kpis(target_date) on the file with these
\* lines: the DailyKPIs returned, the ReportingError of a missing file, or
\* the AttributeError of a line that is JSON but no object
get_daily_kpis(exists, lines, target) ==
    IF ~exists THEN [kind |-> "ReportingError", kpis |-> <<>>]
    ELSE LET counted == CountRecords(iter_records(lines), target, NoCounts)
         IN IF counted.error # ""
            THEN [kind |-> counted.error, kpis |-> <<>>]
            ELSE [kind |-> "kpis",
                  kpis |-> DailyKPIs(target, counted.counts)]

(* ------------------------------- state -------------------------------- *)

VARIABLES
    \* the arguments of a create_tasks call, its position and its outcome
    req_slots, req_news, plan_pc, plan_result,
    \* SchedulerConfig.feed_urls and SchedulerConfig.plan.plan_slots
    feed_urls, plan_slots,
    \* the environment variable ECONCONTENT_OPENAI_API_KEY
    env_api_key,
    \* the lines of the file at SchedulerConfig.output_path
    store,
    \* the UTC date
    utc_day,
    \* where run_daily stands: "idle" before it is invoked, "fetching",
    \* "planning" and "generating" while it runs, and how it ended:
    \* "skipped", "fetch_failed", "plan_failed", "planned_only", "completed",
    \* or "raised" when an exception left run_daily
    pc,
    \* run_daily's locals: the feed being fetched, news_items, tasks and the
    \* task being generated
    feed_idx, news_items, tasks, task_idx,
    \* bookkeeping of the run: the store as the run found it, how many of
    \* its fetch_latest calls raised RSSFetchError, how often it called
    \* create_tasks, with how many news items, how often generate, the day
    \* on which it began, and how many of its feed downloads failed (HTTP
    \* error or invalid feed)
    store_before, calls,
    \* whether the file at SchedulerConfig.output_path exists
    file_exists,
    \* the number of run_daily invocations that have started and not ended
    in_progress,
    \* the day of the scheduler's latest 07:00 firing of the cron job
    last_fired,
    \* the arguments of a generate call, its position and its outcome
    gen_args, gen_pc, gen_result,
    \* the argument of the latest get_daily_kpis call and its outcome
    target_date, kpi_result

plan_vars == <<req_slots, req_news, plan_pc, plan_result>>

gen_vars == <<gen_args, gen_pc, gen_result>>

report_vars == <<target_date, kpi_result>>

run_vars == <<feed_urls, plan_slots, env_api_key, store, utc_day, pc,
              feed_idx, news_items, tasks, task_idx, store_before, calls,
              file_exists, in_progress>>

vars == <<plan_vars, gen_vars, report_vars, last_fired, run_vars>>

\* no run_daily is set up: the state of the run variables under SpecPlan
NoRun ==
    /\ feed_urls = <<>>
    /\ plan_slots = <<>>
    /\ env_api_key = None
    /\ store = <<>>
    /\ utc_day = 2
    /\ pc = "idle"
    /\ feed_idx = 0
    /\ news_items = <<>>
    /\ tasks = <<>>
    /\ task_idx = 0
    /\ store_before = <<>>
    /\ calls = [fetch_errors |-> 0, create_tasks |-> 0, news_items |-> 0,
                generate |-> 0, started_on |-> 0,
                failed_downloads |-> 0]
    /\ file_exists = FALSE
    /\ in_progress = 0
    /\ last_fired = 0

\* no create_tasks call of its own: the state of the call variables under
\* Spec
NoCall ==
    /\ req_slots = <<>>
    /\ req_news = <<>>
    /\ plan_pc = "none"
    /\ plan_result = [error |-> "", tasks |-> <<>>]

\* no generate call of its own
NoGen ==
    /\ gen_args = [headline |-> "", summary |-> "", key_facts |-> <<>>,
                   reply |-> [raises |-> FALSE, output_text |-> ""]]
    /\ gen_pc = "none"
    /\ gen_result = [kind |-> "none", message |-> "", content |-> <<>>]

\* no get_daily_kpis call yet
NoReport ==
    /\ target_date = 0
    /\ kpi_result = NotCalled

(* ------------------- calls of create_tasks ---------------------------- *)

\* the numberings of n news items by news_id in which every id appears
\* first after all smaller ones (ids are only ever compared for equality)
IdNumberings(n) ==
    {f \in [1..n -> 1..n] :
        \A i \in 1..n : \A k \in 1..(f[i] - 1) : \E j \in 1..(i - 1) : f[j] = k}

\* the news list of n items with these ids, flags and timestamps; the item
\* at position i carries headline "h<i>"
NewsList(n, ids, br, ts) ==
    [i \in 1..n |->
        [news_id |-> NewsIds[ids[i]],
         headline |-> "h" \o ToString(i),
         is_breaking |-> br[i],
         published_at |-> ts[i]]]

InitPlan ==
    /\ req_slots \in SlotLists
    /\ \E n \in 0..MaxNews :
          \E ids \in IdNumberings(n) :
             \E br \in [1..n -> BOOLEAN], ts \in [1..n -> OptTimes] :
                req_news = NewsList(n, ids, br, ts)
    /\ plan_pc = "call"
    /\ plan_result = [error |-> "", tasks |-> <<>>]
    /\ NoRun
    /\ NoGen
    /\ NoReport

\* one call create_tasks(plan_slots=req_slots, news_items=req_news), as the
\* /content-plan handler and the unit tests make it
CallCreateTasks ==
    /\ plan_pc = "call"
    /\ plan_result' = create_tasks(req_slots, req_news)
    /\ plan_pc' = "returned"
    /\ UNCHANGED <<req_slots, req_news, run_vars, gen_vars, report_vars,
                   last_fired>>

NextPlan == CallCreateTasks

SpecPlan == InitPlan /\ [][NextPlan]_vars



(* ------------------- calls of generate -------------------------------- *)

\* the arguments of a generate call: present, blank, and for key_facts also
\* empty and partly blank
GenHeadlines == {"  ", "Oil prices rise"}
GenSummaries == {" ", "Brent gains two percent"}
GenKeyFacts == {<<>>, <<" ">>, <<"OPEC cut">>, <<" ", "OPEC cut">>}

InitGen ==
    /\ NoCall
    /\ NoRun
    /\ NoReport
    /\ gen_args \in [headline : GenHeadlines, summary : GenSummaries,
                     key_facts : GenKeyFacts, reply : ApiReplies]
    /\ gen_pc = "call"
    /\ gen_result = [kind |-> "none", message |-> "", content |-> <<>>]

\* one call generate(headline, summary, key_facts, content_type), as the
\* /generate-content handler and run_daily make it
CallGenerate ==
    /\ gen_pc = "call"
    /\ gen_result' = generate(gen_args.headline, gen_args.summary,
                              gen_args.key_facts, gen_args.reply)
    /\ gen_pc' = "returned"
    /\ UNCHANGED <<gen_args, plan_vars, report_vars, last_fired, run_vars>>

NextGen == CallGenerate

SpecGen == InitGen /\ [][NextGen]_vars

(* ------------------- calls of get_daily_kpis -------------------------- *)

\* the longest file read
MaxLines == 4

ReportTask(post_type) ==
    [slot_id |-> "s1", post_type |-> post_type, news_id |-> "n1",
     headline |-> "h1"]

ReportContent ==
    [lead |-> "Lead", body |-> "body", analysis |-> "analysis",
     cta |-> "cta"]

\* the lines a file may hold: records as run_daily writes them, on the two
\* days; records with a padded, blank or missing post_type, without a task,
\* or with a timestamp that does not parse; a line that is no JSON, a blank
\* line, and a line that is JSON but no object
ReportLines ==
    {json_line(CompletedPayload(2, ReportTask("short"), ReportContent, 2)),
     json_line(FailedPayload(2, ReportTask("short"),
                             "OpenAI request failed.", 2)),
     json_line(PlannedPayload(2, ReportTask("short"))),
     json_line(CompletedPayload(3, ReportTask(" analytical "),
                                ReportContent, 0)),
     json_line(CompletedPayload(3, ReportTask("  "), ReportContent, 0)),
     json_line([timestamp |-> isoformat(2), status |-> "completed",
                task |-> [slot_id |-> "s1"]]),
     json_line([timestamp |-> isoformat(2), status |-> "completed"]),
     json_line([timestamp |-> "yesterday", status |-> "failed",
                task |-> ReportTask("short")]),
     TextLine("{not json"),
     TextLine(" "),
     ListLine}

InitReport ==
    /\ NoCall
    /\ NoGen
    /\ feed_urls = <<>>
    /\ plan_slots = <<>>
    /\ env_api_key = None
    /\ \E n \in 0..MaxLines : store \in [1..n -> ReportLines]
    /\ file_exists \in {exists \in BOOLEAN : store # <<>> => exists}
    /\ utc_day = 2
    /\ pc = "idle"
    /\ feed_idx = 0
    /\ news_items = <<>>
    /\ tasks = <<>>
    /\ task_idx = 0
    /\ store_before = <<>>
    /\ calls = [fetch_errors |-> 0, create_tasks |-> 0, news_items |-> 0,
                generate |-> 0, started_on |-> 0,
                failed_downloads |-> 0]
    /\ in_progress = 0
    /\ last_fired = 0
    /\ target_date \in Days
    /\ kpi_result = NotCalled

\* one call get_daily_kpis(target_date), as the /kpis handler makes it
CallGetDailyKpis ==
    /\ kpi_result = NotCalled
    /\ kpi_result' = get_daily_kpis(file_exists, store, target_date)
    /\ UNCHANGED <<target_date, plan_vars, gen_vars, last_fired, run_vars>>

NextReport == CallGetDailyKpis

SpecReport == InitReport /\ [][NextReport]_vars

(* ------------------------- DailyJobRunner.run_daily ------------------- *)

Init ==
    /\ NoCall
    /\ NoGen
    /\ NoReport
    /\ feed_urls \in {SubSeq(FeedUrls, 1, n) : n \in 0..Len(FeedUrls)}
    /\ plan_slots \in SlotLists
    /\ env_api_key \in {None, Some(""), Some("sk-key")}
    /\ store \in EarlierStores
    /\ file_exists \in {exists \in BOOLEAN : store # <<>> => exists}
    /\ utc_day \in Days
    /\ pc = "idle"
    /\ feed_idx = 0
    /\ news_items = <<>>
    /\ tasks = <<>>
    /\ task_idx = 0
    /\ store_before = store
    /\ calls = [fetch_errors |-> 0, create_tasks |-> 0, news_items |-> 0,
                generate |-> 0, started_on |-> 0,
                failed_downloads |-> 0]
    /\ in_progress = 0
    /\ last_fired = 0

\* run_daily is entered: without feed URLs the job is skipped and the
\* invocation ends, else the first fetch_latest is awaited
InvokeRunDaily ==
    /\ store_before' = store
    /\ calls' = [fetch_errors |-> 0, create_tasks |-> 0, news_items |-> 0,
                 generate |-> 0, started_on |-> utc_day,
                 failed_downloads |-> 0]
    /\ news_items' = <<>>
    /\ tasks' = <<>>
    /\ task_idx' = 0
    /\ IF feed_urls = <<>>
       THEN pc' = "skipped" /\ feed_idx' = 0 /\ UNCHANGED in_progress
       ELSE pc' = "fetching" /\ feed_idx' = 1
            /\ in_progress' = in_progress + 1
    /\ UNCHANGED <<plan_vars, gen_vars, report_vars>>
    /\ UNCHANGED <<feed_urls, plan_slots, env_api_key, store, utc_day,
                   file_exists>>

\* run_daily is invoked directly, once
StartRun ==
    /\ pc = "idle"
    /\ InvokeRunDaily
    /\ UNCHANGED last_fired

NewsItemOf(article) ==
    [news_id |-> article.url, headline |-> article.title,
     is_breaking |-> FALSE, published_at |-> article.published_at]

\* a mutant of FetchFeed: an RSSFetchError of one feed is caught inside the
\* loop and the next feed is fetched
FetchFeedContinue ==
    /\ pc = "fetching"
    /\ \E reply \in FeedReplies :
          LET got == fetch_latest(feed_urls[feed_idx], reply)
          IN /\ calls' = [calls EXCEPT
                          !.fetch_errors = IF got.error # "" THEN @ + 1 ELSE @,
                          !.failed_downloads =
                              IF reply.kind # "feed" THEN @ + 1 ELSE @]
             /\ news_items' =
                   news_items \o [i \in 1..Len(got.articles) |->
                                     NewsItemOf(got.articles[i])]
             /\ IF feed_idx < Len(feed_urls)
                THEN pc' = "fetching" /\ feed_idx' = feed_idx + 1
                ELSE pc' = "planning" /\ feed_idx' = feed_idx
    /\ UNCHANGED <<plan_vars, gen_vars, report_vars, last_fired>>
    /\ UNCHANGED <<feed_urls, plan_slots, env_api_key, store, utc_day, tasks,
                   task_idx, store_before, file_exists, in_progress>>

\* the awaited fetch_latest(feed_url) returns or raises: an RSSFetchError
\* ends the run, else the articles are appended to news_items and the next
\* feed is fetched
FetchFeed ==
    /\ pc = "fetching"
    /\ \E reply \in FeedReplies :
          LET got == fetch_latest(feed_urls[feed_idx], reply)
          IN IF got.error # ""
             THEN /\ pc' = "fetch_failed"
                  /\ in_progress' = in_progress - 1
                  /\ calls' = [calls EXCEPT !.fetch_errors = @ + 1,
                                            !.failed_downloads = @ + 1]
                  /\ UNCHANGED <<news_items, feed_idx>>
             ELSE /\ calls' = [calls EXCEPT !.failed_downloads =
                                   IF reply.kind # "feed" THEN @ + 1 ELSE @]
                  /\ UNCHANGED in_progress
                  /\ news_items' =
                        news_items \o [i \in 1..Len(got.articles) |->
                                          NewsItemOf(got.articles[i])]
                  /\ IF feed_idx < Len(feed_urls)
                     THEN pc' = "fetching" /\ feed_idx' = feed_idx + 1
                     ELSE pc' = "planning" /\ feed_idx' = feed_idx
    /\ UNCHANGED <<plan_vars, gen_vars, report_vars, last_fired>>
    /\ UNCHANGED <<feed_urls, plan_slots, env_api_key, store, utc_day, tasks,
                   task_idx, store_before, file_exists>>

\* after the last fetch: create_tasks; a ContentPlanningError ends the run;
\* without an API key one planned record per task is written and the run
\* ends; else the generator is built and the first generate is awaited.
\* news_items is not read again and is dropped here
PlanTasks ==
    /\ pc = "planning"
    /\ LET planned == create_tasks(plan_slots, news_items)
       IN /\ calls' = [calls EXCEPT !.create_tasks = @ + 1,
                                    !.news_items = Len(news_items)]
          /\ news_items' = <<>>
          /\ IF planned.error # ""
             THEN /\ pc' = "plan_failed"
                  /\ in_progress' = in_progress - 1
                  /\ UNCHANGED <<tasks, task_idx, store, file_exists>>
             ELSE /\ tasks' = planned.tasks
                  /\ IF Falsy(env_api_key)
                     THEN /\ store' = WritePlanned(store, utc_day,
                                                   planned.tasks)
                          /\ file_exists' =
                                (file_exists \/ planned.tasks # <<>>)
                          /\ pc' = "planned_only"
                          /\ in_progress' = in_progress - 1
                          /\ UNCHANGED task_idx
                     ELSE /\ UNCHANGED <<store, file_exists>>
                          /\ IF planned.tasks = <<>>
                             THEN /\ pc' = "completed"
                                  /\ in_progress' = in_progress - 1
                                  /\ UNCHANGED task_idx
                             ELSE /\ pc' = "generating"
                                  /\ task_idx' = 1
                                  /\ UNCHANGED in_progress
    /\ UNCHANGED <<plan_vars, gen_vars, report_vars, last_fired>>
    /\ UNCHANGED <<feed_urls, plan_slots, env_api_key, utc_day, feed_idx,
                   store_before>>

\* the awaited generate(...) for tasks[task_idx] returns or raises: content
\* gives a completed record, a ContentGenerationError a failed record, and
\* in both cases the loop goes on; any other exception leaves run_daily
GenerateTask ==
    /\ pc = "generating"
    /\ \E reply \in ApiReplies, elapsed \in Elapsed :
          LET task == tasks[task_idx]
              out == generate(task.headline, task.headline,
                              <<task.headline>>, reply)
              more == task_idx < Len(tasks)
          IN /\ calls' = [calls EXCEPT !.generate = @ + 1]
             /\ IF out.kind = "AttributeError"
                THEN /\ pc' = "raised"
                     /\ in_progress' = in_progress - 1
                     /\ UNCHANGED <<store, file_exists, task_idx>>
                ELSE /\ store' =
                          IF out.kind = "ContentGenerationError"
                          THEN StoreWrite(store,
                                  FailedPayload(utc_day, task, out.message,
                                                elapsed))
                          ELSE StoreWrite(store,
                                  CompletedPayload(utc_day, task, out.content,
                                                   elapsed))
                     /\ file_exists' = TRUE
                     /\ IF more
                        THEN /\ pc' = "generating"
                             /\ task_idx' = task_idx + 1
                             /\ UNCHANGED in_progress
                        ELSE /\ pc' = "completed"
                             /\ task_idx' = task_idx
                             /\ in_progress' = in_progress - 1
    /\ UNCHANGED <<plan_vars, gen_vars, report_vars, last_fired>>
    /\ UNCHANGED <<feed_urls, plan_slots, env_api_key, utc_day, feed_idx,
                   news_items, tasks, store_before>>

\* midnight UTC passes
Midnight ==
    /\ utc_day + 1 \in Days
    /\ utc_day' = utc_day + 1
    /\ UNCHANGED <<plan_vars, gen_vars, report_vars, last_fired>>
    /\ UNCHANGED <<feed_urls, plan_slots, env_api_key, store, pc, feed_idx,
                   news_items, tasks, task_idx, store_before, calls,
                   file_exists, in_progress>>

Next == StartRun \/ FetchFeed \/ PlanTasks \/ GenerateTask \/ Midnight

Spec == Init /\ [][Next]_vars

(* ------------------------- start_scheduler ---------------------------- *)

\* the number of concurrently running instances the scheduler allows a job
\* that is added without max_instances
MaxInstances == 1

\* the scheduler's rule for a due job: it is submitted unless max_instances
\* of its instances are still running
SchedulerSubmits(running, max_instances) == running < max_instances

InitSched ==
    /\ NoCall
    /\ NoGen
    /\ NoReport
    /\ feed_urls = SubSeq(FeedUrls, 1, 1)
    /\ plan_slots = <<SlotAt(1)>>
    /\ env_api_key \in {None, Some("sk-key")}
    /\ store = <<>>
    /\ file_exists \in BOOLEAN
    /\ utc_day = 2
    /\ pc = "idle"
    /\ feed_idx = 0
    /\ news_items = <<>>
    /\ tasks = <<>>
    /\ task_idx = 0
    /\ store_before = <<>>
    /\ calls = [fetch_errors |-> 0, create_tasks |-> 0, news_items |-> 0,
                generate |-> 0, started_on |-> 0,
                failed_downloads |-> 0]
    /\ in_progress = 0
    /\ last_fired = 1

\* a mutant of CronFire: the job is added with max_instances=2
CronFireTwoInstances ==
    /\ last_fired < utc_day
    /\ last_fired' = utc_day
    /\ IF SchedulerSubmits(in_progress, 2)
       THEN InvokeRunDaily
       ELSE UNCHANGED <<plan_vars, gen_vars, report_vars, run_vars>>

\* 07:00 of a day on which the cron job has not fired yet: the scheduler
\* invokes runner.run_daily, or skips this firing while the earlier
\* invocation is still running
CronFire ==
    /\ last_fired < utc_day
    /\ last_fired' = utc_day
    /\ IF SchedulerSubmits(in_progress, MaxInstances)
       THEN InvokeRunDaily
       ELSE UNCHANGED <<plan_vars, gen_vars, report_vars, run_vars>>

\* GET /kpis without a date: get_daily_kpis(date.today()) on the output file
ReadKpis ==
    /\ target_date' = utc_day
    /\ kpi_result' = get_daily_kpis(file_exists, store, utc_day)
    /\ UNCHANGED <<plan_vars, gen_vars, last_fired, run_vars>>

NextSched ==
    CronFire \/ FetchFeed \/ PlanTasks \/ GenerateTask \/ Midnight \/ ReadKpis

SpecSched == InitSched /\ [][NextSched]_vars

(* ------------------- claims about create_tasks ------------------------ *)

Returned == plan_pc = "returned"
ReturnedTasks == Returned /\ plan_result.error = ""
Min(a, b) == IF a <= b THEN a ELSE b

\* the request item a task was made from (headlines are unique per request)
ItemOf(task) == CHOOSE item \in {req_news[i] : i \in 1..Len(req_news)} :
                    item.headline = task.headline

\* a is taken strictly before b: breaking before non-breaking; within a
\* class the later timestamp first, and a timestamp before none
Precedes(a, b) ==
    \/ (a.is_breaking /\ ~b.is_breaking)
    \/ /\ a.is_breaking = b.is_breaking
       /\ a.published_at # None
       /\ (b.published_at = None \/ a.published_at[1] > b.published_at[1])

\* C1: whenever create_tasks returns tasks for non-empty slots and news
\* (news items sharing a news_id included), no two tasks of the returned
\* list have the same news_id.
C1_NoDuplicateNewsId ==
    ReturnedTasks =>
        \A i, j \in 1..Len(plan_result.tasks) :
            i # j => plan_result.tasks[i].news_id
                        # plan_result.tasks[j].news_id

\* the call has returned at least two tasks from a list in which two items
\* share a news_id and there were more slots than distinct ids
C1_Witness ==
    /\ ReturnedTasks
    /\ Len(plan_result.tasks) >= 2
    /\ Len(req_slots) > Len(plan_result.tasks)
    /\ \E i, j \in 1..Len(req_news) :
          i # j /\ req_news[i].news_id = req_news[j].news_id

\* C7: the news is assigned in sorted order: of two tasks the later one's
\* item is never one that should be taken first (breaking before
\* non-breaking, then published_at descending, no timestamp last); an item
\* whose news_id got no task is never one that should be taken before an
\* assigned item; the item chosen for a news_id is never preceded by another
\* item of that news_id; and for [A non-breaking 10:00, B breaking 09:00,
\* C non-breaking 11:00] with three slots the order is B, C, A.
C7_SortedAssignment ==
    ReturnedTasks =>
        LET tasks_out == plan_result.tasks
            assigned == {tasks_out[i].news_id : i \in 1..Len(tasks_out)}
        IN /\ \A i, j \in 1..Len(tasks_out) :
                i < j => ~Precedes(ItemOf(tasks_out[j]), ItemOf(tasks_out[i]))
           /\ \A k \in 1..Len(req_news) : \A i \in 1..Len(tasks_out) :
                /\ req_news[k].news_id \notin assigned
                      => ~Precedes(req_news[k], ItemOf(tasks_out[i]))
                /\ req_news[k].news_id = tasks_out[i].news_id
                      => ~Precedes(req_news[k], ItemOf(tasks_out[i]))
           /\ ( /\ Len(req_slots) = 3
                /\ Len(req_news) = 3
                /\ \A k \in 1..3 : req_news[k].news_id = NewsIds[k]
                /\ <<req_news[1].is_breaking, req_news[1].published_at>>
                      = <<FALSE, Some(10)>>
                /\ <<req_news[2].is_breaking, req_news[2].published_at>>
                      = <<TRUE, Some(9)>>
                /\ <<req_news[3].is_breaking, req_news[3].published_at>>
                      = <<FALSE, Some(11)>> )
              => [i \in 1..Len(tasks_out) |-> tasks_out[i].news_id]
                    = <<NewsIds[2], NewsIds[3], NewsIds[1]>>

\* the call has assigned, in this order, a breaking item, a non-breaking item
\* with a timestamp and a non-breaking item without one, from a request that
\* listed them in the opposite order
C7_Witness ==
    /\ ReturnedTasks
    /\ Len(plan_result.tasks) = 3
    /\ Len(req_news) = 3
    /\ ItemOf(plan_result.tasks[1]) = req_news[3]
    /\ ItemOf(plan_result.tasks[3]) = req_news[1]
    /\ req_news[3].is_breaking /\ ~req_news[2].is_breaking
    /\ ~req_news[1].is_breaking
    /\ req_news[2].published_at # None
    /\ req_news[1].published_at = None

\* C8: for non-empty slots and news the number of tasks returned is at most
\* min(len(plan_slots), len(news_items)).
C8_TaskCountBound ==
    (Returned /\ req_slots # <<>> /\ req_news # <<>>) =>
        /\ plan_result.error = ""
        /\ Len(plan_result.tasks) <= Min(Len(req_slots), Len(req_news))

\* the call has returned fewer tasks than there were slots and fewer than
\* there were news items (news_ids repeat)
C8_Witness ==
    /\ ReturnedTasks
    /\ plan_result.tasks # <<>>
    /\ Len(plan_result.tasks) < Len(req_slots)
    /\ Len(plan_result.tasks) < Len(req_news)

\* C9: create_tasks fails with a planning error, returning no tasks, exactly
\* when plan_slots is empty or news_items is empty.
C9_PlanningErrorIffEmpty ==
    Returned =>
        /\ (plan_result.error # "")
              <=> (req_slots = <<>> \/ req_news = <<>>)
        /\ plan_result.error # "" => plan_result.tasks = <<>>

\* the call has failed on an empty news list although slots were given
C9_Witness ==
    /\ Returned
    /\ plan_result.error # ""
    /\ req_slots # <<>>
    /\ req_news = <<>>

\* the position in the request of the item a task was made from
PositionOf(task) == CHOOSE k \in 1..Len(req_news) :
                        req_news[k].headline = task.headline

\* a and b compare equal on the sort key
SameKey(a, b) ==
    a.is_breaking = b.is_breaking /\ a.published_at = b.published_at

\* C19: items that compare equal on the sort key (same is_breaking and same
\* published_at, or both without a timestamp) are assigned in their input
\* order: of two tasks made from such items the earlier task has the earlier
\* input item, and an input item that ties with a task's item and stands
\* before it in the input has its news_id in an earlier task.
C19_TiesInInputOrder ==
    ReturnedTasks =>
        LET tasks_out == plan_result.tasks
        IN /\ \A i, j \in 1..Len(tasks_out) :
                (i < j /\ SameKey(ItemOf(tasks_out[i]), ItemOf(tasks_out[j])))
                    => PositionOf(tasks_out[i]) < PositionOf(tasks_out[j])
           /\ \A k \in 1..Len(req_news) : \A i \in 1..Len(tasks_out) :
                (k < PositionOf(tasks_out[i])
                    /\ SameKey(req_news[k], ItemOf(tasks_out[i])))
                    => \E m \in 1..(i - 1) :
                          tasks_out[m].news_id = req_news[k].news_id

\* the call has returned three tasks made from three items that all compare
\* equal, none with a timestamp
C19_Witness ==
    /\ ReturnedTasks
    /\ Len(plan_result.tasks) = 3
    /\ \A i \in 1..3 :
          /\ ~req_news[i].is_breaking
          /\ req_news[i].published_at = None

\* the positions of the sorted list at which a news_id appears first
FirstsOf(sorted_news) ==
    {i \in 1..Len(sorted_news) :
        \A j \in 1..(i - 1) : sorted_news[j].news_id # sorted_news[i].news_id}

\* the i-th smallest element of a set of numbers
Nth(set, i) == CHOOSE x \in set : Cardinality({y \in set : y < x}) = i - 1

\* C20: with k = min(len(plan_slots), number of distinct news_ids) the call
\* returns exactly k tasks, and the i-th task carries the slot_id and
\* post_type of the i-th input slot and the news_id and headline of the i-th
\* distinct item of the sorted news list (so the slots without a task are
\* exactly the last len(plan_slots) - k).
C20_GreedyFirstFit ==
    ReturnedTasks =>
        LET sorted_news == Sorted(req_news)
            firsts == FirstsOf(sorted_news)
            k == Min(Len(req_slots), Cardinality(firsts))
        IN /\ Len(plan_result.tasks) = k
           /\ \A i \in 1..k :
                plan_result.tasks[i]
                    = [slot_id |-> req_slots[i].slot_id,
                       post_type |-> req_slots[i].post_type,
                       news_id |-> sorted_news[Nth(firsts, i)].news_id,
                       headline |-> sorted_news[Nth(firsts, i)].headline]

\* the call has returned two tasks for three slots from three news items,
\* the first two of the sorted list sharing a news_id
C20_Witness ==
    /\ ReturnedTasks
    /\ Len(req_slots) = 3
    /\ Len(req_news) = 3
    /\ Len(plan_result.tasks) = 2
    /\ Sorted(req_news)[1].news_id = Sorted(req_news)[2].news_id


(* ------------------- claims about generate ---------------------------- *)

\* C18: a generate call either returns content whose lead, body, analysis
\* and cta are all non-empty strings or fails with a ContentGenerationError,
\* whatever the shape of the model output; it never fails in another way.
C18_ContentOrGenerationError ==
    gen_pc = "returned" =>
        \/ /\ gen_result.kind = "content"
           /\ \A field \in {"lead", "body", "analysis", "cta"} :
                 gen_result.content[field] # ""
        \/ gen_result.kind = "ContentGenerationError"

(* ------------------- claims about get_daily_kpis ---------------------- *)

\* get_daily_kpis has returned DailyKPIs
ReturnedKpis == kpi_result.kind = "kpis"

\* the lines of the store that hold a record (a JSON object)
RecordLines == {i \in 1..Len(store) : store[i].kind = "dict"}

\* the records whose timestamp parses and has the target date, and those of
\* them with this status
OfTargetDate ==
    {i \in RecordLines :
        /\ "timestamp" \in DOMAIN store[i].value
        /\ store[i].value.timestamp = isoformat(target_date)}

WithStatus(status) ==
    {i \in OfTargetDate :
        /\ "status" \in DOMAIN store[i].value
        /\ store[i].value.status = status}

\* the store without the lines that hold no record
RECURSIVE OnlyRecords(_)
OnlyRecords(lines) ==
    IF lines = <<>> THEN <<>>
    ELSE IF Head(lines).kind = "dict"
         THEN <<Head(lines)>> \o OnlyRecords(Tail(lines))
         ELSE OnlyRecords(Tail(lines))

\* C13: on an existing store get_daily_kpis never fails because of lines
\* that hold no valid record: it returns the KPIs it computes over the store
\* with exactly those lines removed.
C13_InvalidLinesSkipped ==
    (kpi_result # NotCalled /\ file_exists) =>
        /\ ReturnedKpis
        /\ kpi_result = get_daily_kpis(TRUE, OnlyRecords(store), target_date)

\* C14: the failure_rate returned is 0.0 when the target date has no
\* completed and no failed record, and failed / (failed + completed)
\* otherwise; planned records are not in the denominator.
C14_FailureRate ==
    ReturnedKpis =>
        LET failed == Cardinality(WithStatus("failed"))
            completed == Cardinality(WithStatus("completed"))
            rate == kpi_result.kpis.failure_rate
        IN IF failed + completed = 0
           THEN rate.num = 0
           ELSE rate.num * (failed + completed) = failed * rate.den

\* KPIs were returned for a date with three completed records, one failed
\* record and nothing else counted, and the rate is 1/4; and
C14_Witness ==
    /\ ReturnedKpis
    /\ Cardinality(WithStatus("completed")) = 3
    /\ Cardinality(WithStatus("failed")) = 1
    /\ kpi_result.kpis.failure_rate = [num |-> 1, den |-> 4]

\* C15: only records whose timestamp parses and has the target date are
\* counted: total_tasks is their number, generated_posts the number of the
\* completed ones, failed_tasks the number of the failed ones, so that
\* generated_posts + failed_tasks <= total_tasks with the records of other
\* statuses as the difference.
C15_CountsOfTargetDate ==
    ReturnedKpis =>
        /\ kpi_result.kpis.total_tasks = Cardinality(OfTargetDate)
        /\ kpi_result.kpis.generated_posts
              = Cardinality(WithStatus("completed"))
        /\ kpi_result.kpis.failed_tasks = Cardinality(WithStatus("failed"))
        /\ kpi_result.kpis.total_tasks
              - (kpi_result.kpis.generated_posts
                    + kpi_result.kpis.failed_tasks)
              = Cardinality(OfTargetDate \ (WithStatus("completed")
                                            \cup WithStatus("failed")))

\* KPIs were returned for a store with a completed, a failed and a planned
\* record of the target date, a record of another date and a record whose
\* timestamp does not parse
C15_Witness ==
    /\ ReturnedKpis
    /\ WithStatus("completed") # {}
    /\ WithStatus("failed") # {}
    /\ WithStatus("planned") # {}
    /\ \E i \in RecordLines :
          /\ "timestamp" \in DOMAIN store[i].value
          /\ store[i].value.timestamp = "yesterday"
    /\ kpi_result.kpis.total_tasks = 3

\* the key under which the claim counts a completed record
PostTypeKey(record) ==
    IF /\ "task" \in DOMAIN record
       /\ "post_type" \in DOMAIN record.task
       /\ Strip(record.task.post_type) # ""
    THEN Strip(record.task.post_type)
    ELSE "unknown"

\* C16: content_type_distribution counts task.post_type over the completed
\* records of the target date only, under "unknown" when post_type is
\* absent or blank, and its counts sum to generated_posts.
C16_DistributionOfCompleted ==
    ReturnedKpis =>
        LET dist == kpi_result.kpis.content_type_distribution
            completed == WithStatus("completed")
            keys == {PostTypeKey(store[i].value) : i \in completed}
        IN /\ DOMAIN dist = keys
           /\ \A key \in keys :
                 dist[key] = Cardinality({i \in completed :
                                PostTypeKey(store[i].value) = key})

\* C17: get_daily_kpis fails with a ReportingError exactly if the file does
\* not exist, and on an existing empty file it returns KPIs whose counts are
\* all zero.
C17_ReportingErrorIffMissing ==
    kpi_result # NotCalled =>
        /\ (kpi_result.kind = "ReportingError") <=> ~file_exists
        /\ (file_exists /\ store = <<>>) =>
              /\ ReturnedKpis
              /\ kpi_result.kpis.total_tasks = 0
              /\ kpi_result.kpis.generated_posts = 0
              /\ kpi_result.kpis.failed_tasks = 0
              /\ kpi_result.kpis.failure_rate = [num |-> 0, den |-> 1]
              /\ DOMAIN kpi_result.kpis.content_type_distribution = {}

\* the call on a missing file has failed with a ReportingError
C17_Witness ==
    /\ ~file_exists
    /\ kpi_result.kind = "ReportingError"

(* --------------------- claims about run_daily ------------------------- *)

\* the lines the current run has added to the store
RunLines == SubSeq(store, Len(store_before) + 1, Len(store))

\* the run got past planning with tasks and an API key
ReachedGenerate == pc \in {"generating", "completed", "raised"}

\* C2: once a run that reached the generate stage has ended, the store has
\* gained exactly one record for each task of the planner, and each is
\* completed (with content and processing_time_seconds) or failed (with
\* error and processing_time_seconds), never planned.
C2_OneRecordPerTask ==
    pc \in {"completed", "raised"} =>
        /\ Len(store) = Len(store_before) + Len(tasks)
        /\ \A i \in 1..Len(tasks) :
              LET rec == RunLines[i].value
              IN /\ rec.task = tasks[i]
                 /\ \/ /\ rec.status = "completed"
                       /\ DOMAIN rec = {"timestamp", "task", "status",
                                        "content", "processing_time_seconds"}
                    \/ /\ rec.status = "failed"
                       /\ DOMAIN rec = {"timestamp", "task", "status",
                                        "error", "processing_time_seconds"}

\* C3: in the generate stage a task whose generation fails gets a failed
\* record with the error message and the run goes on: the run is never left
\* by an exception, and every task attempted so far has its own record.
C3_TaskFailureIsolated ==
    ReachedGenerate =>
        /\ pc # "raised"
        /\ Len(RunLines) = calls.generate
        /\ \A i \in 1..Len(RunLines) :
              /\ RunLines[i].value.task = tasks[i]
              /\ RunLines[i].value.status = "failed"
                    => RunLines[i].value.error # ""
        /\ pc = "completed" => calls.generate = Len(tasks)

\* C4: when a fetch_latest call of the run has raised a fetch error, the run
\* has ended there, the store is exactly as the run found it, and neither
\* create_tasks nor generate has been called.
C4_FetchErrorAborts ==
    (calls.fetch_errors > 0 \/ pc = "fetch_failed") =>
        /\ pc = "fetch_failed"
        /\ calls.fetch_errors = 1
        /\ store = store_before
        /\ calls.create_tasks = 0
        /\ calls.generate = 0

\* the second feed has failed after the first one delivered an article, with
\* earlier records in the store
C4_Witness ==
    /\ pc = "fetch_failed"
    /\ feed_idx = 2
    /\ news_items # <<>>
    /\ store_before # <<>>

\* the statement of C21 as the specification words it: once a feed of the
\* run has been fetched, the failure of another feed is not raised by
\* fetch_latest and does not abort the run.
C21_SingleFeedFailureSwallowed ==
    feed_idx > 1 => (calls.fetch_errors = 0 /\ pc # "fetch_failed")

\* C21: fetch_latest raises a fetch error for every failed download, and the
\* first failed download of a run, on whichever of the configured feeds it
\* happens, ends the run there: create_tasks is never called with the items
\* of the feeds that succeeded, and no task is planned.
C21_AnyFeedFailureRaises ==
    /\ calls.fetch_errors = calls.failed_downloads
    /\ calls.failed_downloads > 0 =>
          /\ calls.failed_downloads = 1
          /\ pc = "fetch_failed"
          /\ calls.create_tasks = 0
          /\ tasks = <<>>
    /\ pc \in {"planning", "generating", "planned_only", "completed",
               "plan_failed", "raised"} =>
          calls.failed_downloads = 0

\* of two configured feeds the first has delivered one article and the
\* download of the second has failed: the run has ended without planning
C21_Witness ==
    /\ Len(feed_urls) = 2
    /\ feed_idx = 2
    /\ Len(news_items) = 1
    /\ calls.failed_downloads = 1
    /\ pc = "fetch_failed"
    /\ calls.create_tasks = 0

\* C5: when planning has been reached with no configured slots or with no
\* news item from the feeds, the run has ended with a planning error, no
\* record written and no generate call.
C5_PlanningErrorAborts ==
    /\ (calls.create_tasks > 0
           /\ (plan_slots = <<>> \/ calls.news_items = 0))
          => pc = "plan_failed"
    /\ pc = "plan_failed" =>
          /\ plan_slots = <<>> \/ calls.news_items = 0
          /\ store = store_before
          /\ calls.generate = 0

\* both feeds were fetched and gave no article, slots and an API key are
\* configured, and the run has ended with a planning error
C5_Witness ==
    /\ pc = "plan_failed"
    /\ feed_idx = 2
    /\ plan_slots # <<>>
    /\ calls.create_tasks = 1
    /\ calls.news_items = 0
    /\ env_api_key = Some("sk-key")

\* C6: a run without API key (unset or empty) that has planned its tasks has
\* appended exactly one record per task, in task order, each with status
\* planned and the keys timestamp, task and status only, and has not called
\* generate.
C6_PlannedOnlyWithoutKey ==
    (calls.create_tasks > 0 /\ pc # "plan_failed"
        /\ (env_api_key = None \/ env_api_key = Some(""))) =>
        /\ pc = "planned_only"
        /\ Len(store) = Len(store_before) + Len(tasks)
        /\ SubSeq(store, 1, Len(store_before)) = store_before
        /\ \A i \in 1..Len(tasks) :
              /\ RunLines[i].value.task = tasks[i]
              /\ RunLines[i].value.status = "planned"
              /\ DOMAIN RunLines[i].value = {"timestamp", "task", "status"}
        /\ calls.generate = 0

\* a run with the API key set to the empty string has written two planned
\* records behind an earlier one
C6_Witness ==
    /\ pc = "planned_only"
    /\ env_api_key = Some("")
    /\ Len(tasks) = 2
    /\ Len(store) = 3

\* C10: at every point of a run the records the run has appended are those
\* of the first tasks of the planner's list, in the list's order (so for
\* i < j the record of task i stands before the record of task j), behind
\* the records the run found, whichever generations succeed or fail.
C10_RecordsInTaskOrder ==
    /\ Len(store) >= Len(store_before)
    /\ SubSeq(store, 1, Len(store_before)) = store_before
    /\ Len(RunLines) <= Len(tasks)
    /\ \A i, j \in 1..Len(RunLines) :
          i < j =>
            /\ RunLines[i].value.task = tasks[i]
            /\ RunLines[j].value.task = tasks[j]
            /\ tasks[i].slot_id # tasks[j].slot_id
    /\ \A i \in 1..Len(RunLines) : RunLines[i].value.task = tasks[i]

\* a run has ended with a failed record for its first task followed by a
\* completed record for its second
C10_Witness ==
    /\ pc = "completed"
    /\ Len(tasks) = 2
    /\ Len(RunLines) = 2
    /\ RunLines[1].value.status = "failed"
    /\ RunLines[2].value.status = "completed"


(* ------------------- claims about the scheduled runs ------------------ *)

IsPrefix(a, b) == Len(a) <= Len(b) /\ SubSeq(b, 1, Len(a)) = a

\* a run_daily invocation is suspended at a fetch or generate call, or is
\* about to plan
RunSuspended == pc \in {"fetching", "planning", "generating"}

\* C11: the output store is an append-only log: over every step of the
\* scheduled runs and the KPI reads the lines before the step are a prefix
\* of the lines after it, and a step that is a get_daily_kpis call leaves
\* the lines and the existence of the file as they are.
C11_AppendOnlyStore ==
    [][/\ IsPrefix(store, store')
       /\ (file_exists => file_exists')
       /\ (report_vars' # report_vars =>
              store' = store /\ file_exists' = file_exists)]_vars

\* two runs, one on each day, have written a record, and get_daily_kpis has
\* returned KPIs that count the record of the second day
C11_Witness ==
    /\ Len(store) = 2
    /\ store[1].value.timestamp = isoformat(2)
    /\ store[2].value.timestamp = isoformat(3)
    /\ kpi_result.kind = "kpis"
    /\ target_date = 3
    /\ kpi_result.kpis.total_tasks = 1

=============================================================================
